---- MODULE Spec2Model ----
(***************************************************************************)
(* The metrics retention subsystem of pi-dashboard: MetricsHistory         *)
(* (backend/metrics_history.py), the SQLite store (backend/database.py)    *)
(* and the sampling loop and admin endpoint of backend/main.py.            *)
(*                                                                         *)
(* Time is counted in whole minutes: `now` is what datetime.now() and      *)
(* time.time() return.  Every comparison of the code is between two times  *)
(* or two timestamps, so the unit does not change an outcome; the          *)
(* 60-second flush interval is one minute.                                 *)
(*                                                                         *)
(* A sample's payload (`data`) is opaque to this layer.  The model gives   *)
(* every recorded sample a distinct payload, which lets the properties     *)
(* tell two samples with the same timestamp apart.                         *)
(***************************************************************************)
EXTENDS Integers, Sequences, FiniteSets, TLC

\* ---------------------------------------------------------------- bounds
\* buffer_size, the argument of __init__ (the global instance uses the
\* default 450).  Spec constructs the MetricsHistory with MaxBufferSize,
\* SpecSampler with MaxBufferSize or MaxBufferSize + 1.
MaxBufferSize == 2
\* Number of add_metric / add_docker_metric calls that append, over a run.
MaxRecords == 3
\* The clock is read at the instants 1..EarlyTime and then, once the samples
\* of those instants are older than the flush age, up to MaxTime.
EarlyTime == 2
MaxTime == 8
\* Number of flush runs cut short by a persistence failure, over a run.
MaxFailures == 1
\* Number of process restarts, over a run.
MaxRestarts == 1
\* asyncio.sleep(2) of collect_metrics_task, scaled with buffer_size so that
\* buffer_size * SamplingPeriod stays comparable with the 5 and 15 minute
\* windows (450 * 2 s = 15 min in the deployed configuration).
SamplingPeriod == 5
\* An iteration of collect_metrics_task starts up to MaxJitter late.
MaxJitter == 1
\* The sampling loop is followed until the clock reads MaxSamplerTime.
MaxSamplerTime == 17

\* The instants at which the clock is read while long-range queries are
\* followed: 1, the first instant at which a sample of instant 1 can be
\* flushed, LateTime and MaxQueryTime.
LateTime == 13
MaxQueryTime == 18

\* Last instant of the clock when both background tasks run.
MaxTaskTime == 13
\* Number of entries of services.json.
MaxServices == 2
\* Number of check cycles that probe, over a run.
MaxChecks == 2

\* ------------------------------------------------------ program constants
FlushInterval == 1         \* self.flush_interval = 60 (seconds)
FlushAgeMinutes == 5       \* timedelta(minutes=5) in flush_to_database
InMemoryMinutes == 15      \* "if range_minutes <= 15"
RecentMinutes == 5         \* get_recent_metrics(metric_type, 5) of the merge
MinutesPerDay == 1440      \* timedelta(days=days)

\* The keys of metrics_buffer, in dict order.  The model keeps two of the
\* five metric types (cpu, memory, disk, temperature, network): the streams
\* are independent and are all handled by the same loop body.
MetricTypes == <<"cpu", "memory">>
\* A metric_type that is no key of metrics_buffer.
UnknownMetric == "gpu"
\* Container names the Docker introspection may report.
ContainerNames == {"web"}
\* A container name that is never reported.
UnknownContainer == "db"
\* valid_ranges of the history endpoints.
ValidRanges == {5, 15, 60, 360, 1440}
\* `days` arguments of the cleanup endpoint.
CleanupDays == {0, 7}

VARIABLES
    now,                            \* the wall clock, in minutes
    buffer_size,                    \* self.buffer_size
    metrics_buffer,                 \* self.metrics_buffer: metric type -> deque
    docker_buffer,                  \* self.docker_buffer: container name -> deque
    docker_names,                   \* key order of self.docker_buffer
    last_flush,                     \* self.last_flush
    last_flushed_timestamp,         \* dict metric type -> float
    last_flushed_docker_timestamp,  \* dict container name -> float
    metrics_table,                  \* rows of table metrics
    docker_table,                   \* rows of table docker_metrics
    metrics_seq,                    \* AUTOINCREMENT counter of metrics
    docker_seq,                     \* AUTOINCREMENT counter of docker_metrics
    pc,                             \* collect_metrics_task: "run" or "sleep"
    \* history variables, read by the properties only
    next_data,                      \* next fresh payload
    recorded,                       \* stream -> payloads appended since construction
    ins_count,                      \* payload -> number of INSERTs made for it
    stale,                          \* payloads appended with a timestamp <= the
                                    \* stream's mark
    torn,                           \* payloads INSERTed by a run that raised before
                                    \* it set their stream's mark
    runs,                           \* non-throttled flush runs in succession since the
                                    \* last append, purge or restart (counted up to 2)
    failures,                       \* flush runs that raised so far
    restarts,                       \* restarts so far
    last_op,                        \* the operation that made the latest step
    \* a long-range call of get_historical_metrics / _docker_metrics
    qpc,                            \* "idle", or "buffer": the store was read and
                                    \* the buffer is read next
    qarg,                           \* its stream and range_minutes
    db_snapshot,                    \* its db_results, as read from the store
    \* self.lock
    locked,                         \* asyncio.Lock: whether it is held
    inside,                         \* history: the callers inside "async with
                                    \* self.lock"
    \* ServiceHealthChecker and check_service_health_task
    services,                       \* self.services, as load_services left it
    health_status,                  \* self.health_status: name -> result
    hpc,                            \* check_service_health_task: "run", "publish",
                                    \* "sleep" or "done"
    results,                        \* check_all_services: what gather returned
    hidx,                           \* check_all_services: index of the for loop
    checks,                         \* check cycles started (stands for last_check)
    probes,                         \* history: the outcome behind each result
    health_op,                      \* history: the latest step of the checker
    \* lifespan
    lifespan_pc,                    \* "serving", "await_metrics", "await_health"
                                    \* or "stopped"
    cancel_requested                \* tasks on which cancel() was called and that
                                    \* have not yet been resumed

history_vars == <<now, buffer_size, metrics_buffer, docker_buffer, docker_names,
                  last_flush, last_flushed_timestamp,
                  last_flushed_docker_timestamp, metrics_table, docker_table,
                  metrics_seq, docker_seq, pc, next_data, recorded, ins_count,
                  stale, torn, runs, failures, restarts, last_op,
                  qpc, qarg, db_snapshot, locked, inside>>
query_vars == <<qpc, qarg, db_snapshot>>
lock_vars == <<locked, inside>>
health_vars == <<services, health_status, hpc, results, hidx, checks, probes,
                 health_op>>
lifespan_vars == <<lifespan_pc, cancel_requested>>
\* What the operations of MetricsHistory and of the store leave alone.
aside_vars == <<health_vars, lifespan_vars, query_vars, lock_vars>>

vars == <<history_vars, health_vars, lifespan_vars>>

store_vars == <<metrics_table, docker_table, metrics_seq, docker_seq>>
mark_vars == <<last_flushed_timestamp, last_flushed_docker_timestamp>>
buffer_vars == <<metrics_buffer, docker_buffer, docker_names>>

\* ---------------------------------------------------------------- helpers
Range(f) == {f[i] : i \in DOMAIN f}

Max2(a, b) == IF a >= b THEN a ELSE b

MetricStream(m) == [kind |-> "metric", name |-> m]
DockerStream(c) == [kind |-> "docker", name |-> c]
AllStreams == {MetricStream(MetricTypes[i]) : i \in DOMAIN MetricTypes}
                \cup {DockerStream(c) : c \in ContainerNames}
\* Streams no record call ever feeds.
UnknownStreams == {MetricStream(UnknownMetric), DockerStream(UnknownContainer)}

\* json.dumps(data) and json.loads(text): the stored column is text, not the dict.
JsonDumps(data) == [json |-> data]
JsonLoads(text) == text.json

\* dict.get(key, 0)
DictGet(d, key) == IF key \in DOMAIN d THEN d[key] ELSE 0

\* A bounded buffer that, when full, gives up its newest entry instead of its
\* oldest (pop() for popleft()).
DequeAppendDropsNewest(buffer, e, maxlen) ==
    IF Len(buffer) >= maxlen
    THEN Append(SubSeq(buffer, 1, Len(buffer) - 1), e)
    ELSE Append(buffer, e)

\* deque(maxlen=n).append(e): a full deque drops its leftmost element.
DequeAppend(buffer, e, maxlen) ==
    IF Len(buffer) >= maxlen
    THEN Append(Tail(buffer), e)
    ELSE Append(buffer, e)

Payloads(buffer) == {buffer[i].data : i \in DOMAIN buffer}

\* The buffer of a stream; a container without a deque has none.
BufferOf(s) ==
    IF s.kind = "metric"
    THEN IF s.name \in DOMAIN metrics_buffer THEN metrics_buffer[s.name] ELSE <<>>
    ELSE IF s.name \in DOMAIN docker_buffer THEN docker_buffer[s.name] ELSE <<>>

\* The high-water mark of a stream, as the flush reads it.
MarkOf(s) ==
    IF s.kind = "metric" THEN DictGet(last_flushed_timestamp, s.name)
    ELSE DictGet(last_flushed_docker_timestamp, s.name)

\* The latest step, as the properties read it.
\*   "flush", "flush_failed": arg = the runs in succession before this one,
\*       n = the entries that qualified, m = the INSERTs it attempted,
\*       rows = the payloads it INSERTed;
\*   "cleanup": arg = days, ret = the value returned, n = the rows there were
\*       before it, m = the rows it deleted;
\*   "other": any other step.
Op(op, arg, ret, n, m, rows) ==
    [op |-> op, arg |-> arg, ret |-> ret, n |-> n, m |-> m, rows |-> rows]
Other == Op("other", 0, 0, 0, 0, {})

\* qarg while no long-range query is under way.
NoQuery == [stream |-> MetricStream(UnknownMetric), range_minutes |-> 0]

\* ------------------------------------------------------------------- Init
\* MetricsHistory.__init__(buffer_size) and a database file that
\* init_database has just created.
InitWith(size) ==
    /\ now = 1
    /\ buffer_size = size
    /\ metrics_buffer = [m \in Range(MetricTypes) |-> <<>>]
    /\ docker_buffer = <<>>
    /\ docker_names = <<>>
    /\ last_flush = 1
    /\ last_flushed_timestamp = <<>>
    /\ last_flushed_docker_timestamp = <<>>
    /\ metrics_table = {}
    /\ docker_table = {}
    /\ metrics_seq = 0
    /\ docker_seq = 0
    /\ pc = "run"
    /\ next_data = 1
    /\ recorded = [s \in AllStreams |-> <<>>]
    /\ ins_count = <<>>
    /\ stale = {}
    /\ torn = {}
    /\ runs = 0
    /\ failures = 0
    /\ restarts = 0
    /\ last_op = Other
    /\ qpc = "idle"
    /\ qarg = NoQuery
    /\ db_snapshot = <<>>
    /\ locked = FALSE
    /\ inside = {}

\* ServiceHealthChecker.__init__ with the given content of services.json,
\* and the application before lifespan reaches its shutdown phase.
InitHealth(config) ==
    /\ services = config
    /\ health_status = <<>>
    /\ hpc = "run"
    /\ results = <<>>
    /\ hidx = 1
    /\ checks = 0
    /\ probes = <<>>
    /\ health_op = [op |-> "other", entries |-> {}]
    /\ lifespan_pc = "serving"
    /\ cancel_requested = {}

Init == InitWith(MaxBufferSize) /\ InitHealth(<<>>)

\* ------------------------------------------------------------------ clock
\* The instants at which the clock is read.
Instants == (1..EarlyTime) \cup ((EarlyTime + FlushAgeMinutes)..MaxTime)

\* Time passes; nothing else changes.
TickTo(instants) ==
    /\ \E t \in instants : t > now /\ now' = t
    /\ last_op' = Other
    /\ UNCHANGED <<aside_vars, buffer_size, buffer_vars, last_flush, mark_vars,
                   store_vars, pc,
                   next_data, recorded, ins_count, stale, torn, runs, failures,
                   restarts>>

Tick == TickTo(Instants)

\* ------------------------------------------------------- Retention Buffer
\* Timestamps a caller of add_metric / add_docker_metric passes: the current
\* time (the default, and what collect_metrics_task passes) or an earlier one.
InputTimestamps == {now, 1}

\* The buffers after add_metric(metric_type, data, timestamp).
AddMetricBuffer(buffers, metric_type, data, timestamp) ==
    IF metric_type \in DOMAIN buffers
    THEN [buffers EXCEPT ![metric_type] =
            DequeAppend(@, [timestamp |-> timestamp, data |-> data], buffer_size)]
    ELSE buffers

\* The buffers after add_docker_metric(container_name, data, timestamp): the
\* deque is created on first use.
AddDockerBuffer(buffers, container_name, data, timestamp) ==
    LET had == IF container_name \in DOMAIN buffers
               THEN buffers[container_name] ELSE <<>>
    IN  [c \in DOMAIN buffers \cup {container_name} |->
            IF c = container_name
            THEN DequeAppend(had, [timestamp |-> timestamp, data |-> data],
                             buffer_size)
            ELSE buffers[c]]

AddDockerNames(names, container_name) ==
    IF container_name \in Range(names) THEN names
    ELSE Append(names, container_name)

\* ins_count with the fresh payloads first..(first + n - 1) added.
Fresh(counts, first, n) ==
    [d \in DOMAIN counts \cup (first..(first + n - 1)) |->
        IF d \in DOMAIN counts THEN counts[d] ELSE 0]

\* History of one append to stream s.
RecordHistory(s, data, timestamp) ==
    /\ next_data' = next_data + 1
    /\ recorded' = [recorded EXCEPT ![s] = Append(@, data)]
    /\ ins_count' = Fresh(ins_count, data, 1)
    /\ stale' = IF timestamp <= MarkOf(s) THEN stale \cup {data} ELSE stale

AddMetric(metric_type, timestamp) ==
    /\ next_data <= MaxRecords
    /\ metric_type \in DOMAIN metrics_buffer
    /\ metrics_buffer' =
            AddMetricBuffer(metrics_buffer, metric_type, next_data, timestamp)
    /\ RecordHistory(MetricStream(metric_type), next_data, timestamp)
    /\ runs' = 0
    /\ last_op' = Other
    /\ UNCHANGED <<aside_vars, now, buffer_size, docker_buffer, docker_names, last_flush,
                   mark_vars, store_vars, pc, torn, failures, restarts>>

\* add_metric with a metric_type that is no key of metrics_buffer appends
\* nothing.
AddUnknownMetric ==
    /\ metrics_buffer' =
            AddMetricBuffer(metrics_buffer, UnknownMetric, next_data, now)
    /\ UNCHANGED <<aside_vars, now, buffer_size, docker_buffer, docker_names, last_flush,
                   mark_vars, store_vars, pc, next_data, recorded, ins_count,
                   stale, torn, runs, failures, restarts, last_op>>

AddDockerMetric(container_name, timestamp) ==
    /\ next_data <= MaxRecords
    /\ docker_buffer' =
            AddDockerBuffer(docker_buffer, container_name, next_data, timestamp)
    /\ docker_names' = AddDockerNames(docker_names, container_name)
    /\ RecordHistory(DockerStream(container_name), next_data, timestamp)
    /\ runs' = 0
    /\ last_op' = Other
    /\ UNCHANGED <<aside_vars, now, buffer_size, metrics_buffer, last_flush, mark_vars,
                   store_vars, pc, torn, failures, restarts>>

Record ==
    \/ \E m \in Range(MetricTypes), t \in InputTimestamps : AddMetric(m, t)
    \/ AddUnknownMetric
    \/ \E c \in ContainerNames, t \in InputTimestamps : AddDockerMetric(c, t)

\* ---------------------------------------------------------- Durable Store
\* The row of INSERT INTO metrics: AUTOINCREMENT numbers the rows.
MetricRow(id, metric_type, data, timestamp) ==
    [id |-> id, timestamp |-> timestamp, metric_type |-> metric_type,
     data |-> JsonDumps(data)]

\* entry['data'].get('id', ''): the payload names its container.
ContainerIdOf(data) == data

\* The row of INSERT INTO docker_metrics.
DockerRow(id, container_id, container_name, data, timestamp) ==
    [id |-> id, timestamp |-> timestamp, container_id |-> container_id,
     container_name |-> container_name, data |-> JsonDumps(data)]

\* A cutoff that ignores the days it is given and uses the default of 7.
CleanupCutoffDefault(days) == now - 7 * MinutesPerDay

\* cleanup_old_data(days): both DELETEs run with the same cutoff, and the
\* value returned is cursor.rowcount, the row count of the statement executed
\* last.
CleanupCutoff(days) == now - days * MinutesPerDay

Kept(table, cutoff_time) == {row \in table : ~(row.timestamp < cutoff_time)}

CleanupRowcount(days) ==
    Cardinality(docker_table \ Kept(docker_table, CleanupCutoff(days)))

CleanupOldData(days) ==
    /\ metrics_table' = Kept(metrics_table, CleanupCutoff(days))
    /\ docker_table' = Kept(docker_table, CleanupCutoff(days))
    /\ runs' = 0
    /\ last_op' = Op("cleanup", days, CleanupRowcount(days),
                     Cardinality(metrics_table) + Cardinality(docker_table),
                     Cardinality(metrics_table \ metrics_table')
                        + Cardinality(docker_table \ docker_table'), {})
    /\ UNCHANGED <<aside_vars, now, buffer_size, buffer_vars, last_flush, mark_vars,
                   metrics_seq, docker_seq, pc, next_data, recorded, ins_count,
                   stale, torn, failures, restarts>>

\* Rows in the order of "ORDER BY timestamp ASC"; SQLite walks the
\* (key, timestamp) index, in which equal timestamps follow the row id.
RECURSIVE OrderByTimestamp(_)
OrderByTimestamp(rows) ==
    IF rows = {} THEN <<>>
    ELSE LET first == CHOOSE r \in rows : \A q \in rows :
                          \/ r.timestamp < q.timestamp
                          \/ r.timestamp = q.timestamp /\ r.id <= q.id
         IN  <<first>> \o OrderByTimestamp(rows \ {first})

ResultRows(rows) ==
    [i \in DOMAIN rows |->
        [timestamp |-> rows[i].timestamp, data |-> JsonLoads(rows[i].data)]]

\* get_metrics_range(metric_type, start_time): end_time defaults to now.
GetMetricsRange(metric_type, start_time) ==
    ResultRows(OrderByTimestamp(
        {row \in metrics_table : /\ row.metric_type = metric_type
                                 /\ row.timestamp >= start_time
                                 /\ row.timestamp <= now}))

\* The range query with the container_name condition left out of the WHERE
\* clause.
GetDockerMetricsRangeAnyName(container_name, start_time) ==
    ResultRows(OrderByTimestamp(
        {row \in docker_table : /\ row.timestamp >= start_time
                                /\ row.timestamp <= now}))

\* get_docker_metrics_range(container_name, start_time)
GetDockerMetricsRange(container_name, start_time) ==
    ResultRows(OrderByTimestamp(
        {row \in docker_table : /\ row.container_name = container_name
                                /\ row.timestamp >= start_time
                                /\ row.timestamp <= now}))

\* The comprehension with the cutoff itself left out (> for >=).
RecentOfAfter(buffer, cutoff_time) ==
    SelectSeq(buffer, LAMBDA entry : entry.timestamp > cutoff_time)

\* --------------------------------------------------------------- queries
\* The list comprehension of get_recent_metrics / get_recent_docker_metrics.
RecentOf(buffer, cutoff_time) ==
    SelectSeq(buffer, LAMBDA entry : entry.timestamp >= cutoff_time)

GetRecentMetrics(metric_type, minutes) ==
    IF metric_type \notin DOMAIN metrics_buffer THEN <<>>
    ELSE RecentOf(metrics_buffer[metric_type], now - minutes)

GetRecentDockerMetrics(container_name, minutes) ==
    IF container_name \notin DOMAIN docker_buffer THEN <<>>
    ELSE RecentOf(docker_buffer[container_name], now - minutes)

\* A merge that returns the rows of the store alone whenever there are any.
StitchStoreOnly(db_results, recent_buffer) ==
    IF db_results # <<>> THEN db_results ELSE recent_buffer

\* The merge of get_historical_metrics / get_historical_docker_metrics.
Stitch(db_results, recent_buffer) ==
    IF recent_buffer # <<>> /\ db_results # <<>>
    THEN LET last_db_time == db_results[Len(db_results)].timestamp
         IN  db_results \o SelectSeq(recent_buffer,
                                LAMBDA entry : entry.timestamp > last_db_time)
    ELSE IF recent_buffer # <<>> /\ db_results = <<>>
    THEN recent_buffer
    ELSE db_results

GetHistoricalMetrics(metric_type, range_minutes) ==
    IF range_minutes <= InMemoryMinutes
    THEN GetRecentMetrics(metric_type, range_minutes)
    ELSE Stitch(GetMetricsRange(metric_type, now - range_minutes),
                GetRecentMetrics(metric_type, RecentMinutes))

GetHistoricalDockerMetrics(container_name, range_minutes) ==
    IF range_minutes <= InMemoryMinutes
    THEN GetRecentDockerMetrics(container_name, range_minutes)
    ELSE Stitch(GetDockerMetricsRange(container_name, now - range_minutes),
                GetRecentDockerMetrics(container_name, RecentMinutes))

\* query(stream, range) and recent(stream, window) of a stream.
Query(s, range_minutes) ==
    IF s.kind = "metric" THEN GetHistoricalMetrics(s.name, range_minutes)
    ELSE GetHistoricalDockerMetrics(s.name, range_minutes)

Recent(s, minutes) ==
    IF s.kind = "metric" THEN GetRecentMetrics(s.name, minutes)
    ELSE GetRecentDockerMetrics(s.name, minutes)

\* get_metrics_range / get_docker_metrics_range of a stream.
StoreRange(s, start_time) ==
    IF s.kind = "metric" THEN GetMetricsRange(s.name, start_time)
    ELSE GetDockerMetricsRange(s.name, start_time)

\* A long-range query up to its read of the store: range_minutes > 15, and
\* db_results is what the range query of the store returns now.
QueryStoreRead(s, range_minutes) ==
    /\ qpc = "idle"
    /\ range_minutes > InMemoryMinutes
    /\ qpc' = "buffer"
    /\ qarg' = [stream |-> s, range_minutes |-> range_minutes]
    /\ db_snapshot' = StoreRange(s, now - range_minutes)
    /\ UNCHANGED <<health_vars, lifespan_vars, lock_vars, now, buffer_size,
                   buffer_vars, last_flush, mark_vars, store_vars, pc, next_data,
                   recorded, ins_count, stale, torn, runs, failures, restarts,
                   last_op>>

\* What the query under way returns when it reads the buffer now.
QueryResult == Stitch(db_snapshot, Recent(qarg.stream, RecentMinutes))

\* The rest of the long-range query: the buffer's last 5 minutes are read
\* under the lock, merged with db_snapshot, and the result is returned.
QueryBufferRead ==
    /\ qpc = "buffer"
    /\ qpc' = "idle"
    /\ qarg' = NoQuery
    /\ db_snapshot' = <<>>
    /\ UNCHANGED <<health_vars, lifespan_vars, lock_vars, now, buffer_size,
                   buffer_vars, last_flush, mark_vars, store_vars, pc, next_data,
                   recorded, ins_count, stale, torn, runs, failures, restarts,
                   last_op>>

\* ------------------------------------------------------ Flush Coordinator
\* "if current_time - self.last_flush < self.flush_interval: return"
Throttled(current_time) == current_time - last_flush < FlushInterval

\* A cutoff taken from the in-memory window instead of the flush age.
FlushCutoffLate == now - InMemoryMinutes

\* flush_cutoff = (datetime.now() - timedelta(minutes=5)).timestamp()
FlushCutoff == now - FlushAgeMinutes

\* The flush condition with the mark itself included (>= for >).
EligibleFromMark(buffer, last_flushed, flush_cutoff) ==
    SelectSeq(buffer, LAMBDA entry :
        entry.timestamp < flush_cutoff /\ entry.timestamp >= last_flushed)

\* The flush condition with the cutoff itself included (<= for <).
EligibleToCutoff(buffer, last_flushed, flush_cutoff) ==
    SelectSeq(buffer, LAMBDA entry :
        entry.timestamp <= flush_cutoff /\ entry.timestamp > last_flushed)

\* The entries the loop inserts, taken from the newest end of the buffer.
EligibleNewestFirst(buffer, last_flushed, flush_cutoff) ==
    LET todo == SelectSeq(buffer, LAMBDA entry :
                    entry.timestamp < flush_cutoff /\ entry.timestamp > last_flushed)
    IN  [k \in DOMAIN todo |-> todo[Len(todo) + 1 - k]]

\* The entries of a buffer the loop inserts: "older than 5 min AND newer than
\* last flush", in buffer order.
Eligible(buffer, last_flushed, flush_cutoff) ==
    SelectSeq(buffer, LAMBDA entry : /\ entry.timestamp < flush_cutoff
                                     /\ entry.timestamp > last_flushed)

\* max_flushed_timestamp after the loop over the inserted entries.
MaxFlushed(last_flushed, flushed) ==
    LET ts == {last_flushed} \cup {flushed[i].timestamp : i \in DOMAIN flushed}
    IN  CHOOSE t \in ts : \A u \in ts : u <= t

\* A run that forgets to save the mark of the stream it has flushed.
UpdateMarkForgets(marks, key, last_flushed, max_flushed_timestamp) == marks

\* A run that replaces the map of marks by the mark of the stream it has
\* flushed.
UpdateMarkAlone(marks, key, last_flushed, max_flushed_timestamp) ==
    IF max_flushed_timestamp > last_flushed
    THEN [k \in {key} |-> max_flushed_timestamp]
    ELSE marks

\* "if max_flushed_timestamp > last_flushed: self.last_flushed_...[key] = ..."
UpdateMark(marks, key, last_flushed, max_flushed_timestamp) ==
    IF max_flushed_timestamp > last_flushed
    THEN [k \in DOMAIN marks \cup {key} |->
            IF k = key THEN max_flushed_timestamp ELSE marks[k]]
    ELSE marks

\* The streams in the order flush_to_database visits them: the items of
\* metrics_buffer, then the items of docker_buffer.
FlushOrder(names) ==
    [i \in 1..(Len(MetricTypes) + Len(names)) |->
        IF i <= Len(MetricTypes) THEN MetricStream(MetricTypes[i])
        ELSE DockerStream(names[i - Len(MetricTypes)])]

StreamBuffer(mbuf, dbuf, s) ==
    IF s.kind = "metric" THEN mbuf[s.name] ELSE dbuf[s.name]

\* The INSERTs a run makes when none fails, in order: for each stream the
\* eligible entries of its buffer.
RECURSIVE FlushPlan(_, _, _, _)
FlushPlan(mbuf, dbuf, order, i) ==
    IF i > Len(order) THEN <<>>
    ELSE LET s == order[i]
             todo == Eligible(StreamBuffer(mbuf, dbuf, s), MarkOf(s), FlushCutoff)
         IN  [k \in DOMAIN todo |-> [stream |-> i, entry |-> todo[k]]]
                \o FlushPlan(mbuf, dbuf, order, i + 1)

\* The marks after the loop has finished the streams order[1..upto]].
RECURSIVE MarksAfter(_, _, _, _, _, _)
MarksAfter(marks, kind, mbuf, dbuf, order, upto) ==
    IF upto = 0 THEN marks
    ELSE LET before == MarksAfter(marks, kind, mbuf, dbuf, order, upto - 1)
             s == order[upto]
             last_flushed == MarkOf(s)
             flushed == Eligible(StreamBuffer(mbuf, dbuf, s), last_flushed,
                                 FlushCutoff)
         IN  IF s.kind = kind
             THEN UpdateMark(before, s.name, last_flushed,
                             MaxFlushed(last_flushed, flushed))
             ELSE before

\* A non-throttled run of flush_to_database over the given buffers.  With
\* fail_at = 0 every INSERT succeeds.  With fail_at = k > 0 the k-th INSERT
\* raises: the rows before it are committed (insert_metric commits each row),
\* the marks of the streams finished before it are set, the mark of its own
\* stream and self.last_flush are not, and the exception leaves the method.
FlushRun(mbuf, dbuf, names, fail_at) ==
    LET order == FlushOrder(names)
        plan == FlushPlan(mbuf, dbuf, order, 1)
        done == IF fail_at = 0 THEN plan ELSE SubSeq(plan, 1, fail_at - 1)
        finished == IF fail_at = 0 THEN Len(order) ELSE plan[fail_at].stream - 1
        mdone == SelectSeq(done, LAMBDA a : order[a.stream].kind = "metric")
        ddone == SelectSeq(done, LAMBDA a : order[a.stream].kind = "docker")
    IN  [metrics_table |-> metrics_table \cup
            {MetricRow(metrics_seq + k, order[mdone[k].stream].name,
                       mdone[k].entry.data, mdone[k].entry.timestamp)
                : k \in DOMAIN mdone},
         docker_table |-> docker_table \cup
            {DockerRow(docker_seq + k, ContainerIdOf(ddone[k].entry.data),
                       order[ddone[k].stream].name,
                       ddone[k].entry.data, ddone[k].entry.timestamp)
                : k \in DOMAIN ddone},
         metrics_seq |-> metrics_seq + Len(mdone),
         docker_seq |-> docker_seq + Len(ddone),
         last_flushed_timestamp |->
            MarksAfter(last_flushed_timestamp, "metric", mbuf, dbuf, order, finished),
         last_flushed_docker_timestamp |->
            MarksAfter(last_flushed_docker_timestamp, "docker", mbuf, dbuf, order,
                       finished),
         last_flush |-> IF fail_at = 0 THEN now ELSE last_flush,
         inserted |-> [k \in DOMAIN done |-> done[k].entry.data],
         torn |-> IF fail_at = 0 THEN {}
                  ELSE {done[k].entry.data : k \in
                          {j \in DOMAIN done : done[j].stream = plan[fail_at].stream}},
         raised |-> fail_at # 0]

\* How many INSERTs were made for payload d in a run.
Times(inserted, d) == Cardinality({k \in DOMAIN inserted : inserted[k] = d})

\* The state after a run with outcome r; counts is ins_count before the run.
ApplyFlush(r, counts) ==
    /\ metrics_table' = r.metrics_table
    /\ docker_table' = r.docker_table
    /\ metrics_seq' = r.metrics_seq
    /\ docker_seq' = r.docker_seq
    /\ last_flushed_timestamp' = r.last_flushed_timestamp
    /\ last_flushed_docker_timestamp' = r.last_flushed_docker_timestamp
    /\ last_flush' = r.last_flush
    /\ ins_count' = [d \in DOMAIN counts |-> counts[d] + Times(r.inserted, d)]
    /\ torn' = torn \cup r.torn
    /\ failures' = IF r.raised THEN failures + 1 ELSE failures

\* The note of a run: counts is ins_count before it, plan the INSERTs the run
\* has to make; an INSERT was attempted for every row written and for the one
\* that raised.
FlushOp(op, before, counts, plan) ==
    Op(op, before, 0, Len(plan),
       (metrics_seq' - metrics_seq) + (docker_seq' - docker_seq)
           + (IF op = "flush_failed" THEN 1 ELSE 0),
       {d \in DOMAIN counts : ins_count'[d] > counts[d]})

\* One more run in succession.
NoteRun == IF runs < 2 THEN runs + 1 ELSE 2

\* flush_to_database called before flush_interval has elapsed: it returns at
\* once.
FlushThrottled ==
    /\ Throttled(now)
    /\ UNCHANGED vars

\* A loop that takes the entries it inserts out of the deque.
FlushedBufferDrained(buffer, last_flushed, flush_cutoff) ==
    SelectSeq(buffer, LAMBDA entry :
        ~(entry.timestamp < flush_cutoff /\ entry.timestamp > last_flushed))

\* A deque after "for entry in buffer" has gone over it: the loop reads the
\* entries and calls no method of the deque.
FlushedBuffer(buffer, last_flushed, flush_cutoff) == buffer

\* The buffers after a run.
FlushedBuffers ==
    /\ metrics_buffer' =
            [m \in DOMAIN metrics_buffer |->
                FlushedBuffer(metrics_buffer[m], MarkOf(MetricStream(m)), FlushCutoff)]
    /\ docker_buffer' =
            [c \in DOMAIN docker_buffer |->
                FlushedBuffer(docker_buffer[c], MarkOf(DockerStream(c)), FlushCutoff)]
    /\ docker_names' = docker_names

\* flush_to_database runs to its end.
FlushToDatabase ==
    /\ ~Throttled(now)
    /\ ApplyFlush(FlushRun(metrics_buffer, docker_buffer, docker_names, 0),
                  ins_count)
    /\ runs' = NoteRun
    /\ last_op' = FlushOp("flush", runs, ins_count,
                          FlushPlan(metrics_buffer, docker_buffer,
                                    FlushOrder(docker_names), 1))
    /\ FlushedBuffers
    /\ UNCHANGED <<aside_vars, now, buffer_size, pc, next_data, recorded, stale,
                   restarts>>

\* flush_to_database is cut short: one of its INSERTs raises (the database
\* file cannot be opened or written).
FlushFails ==
    /\ ~Throttled(now)
    /\ failures < MaxFailures
    /\ \E k \in 1..Len(FlushPlan(metrics_buffer, docker_buffer,
                                  FlushOrder(docker_names), 1)) :
          ApplyFlush(FlushRun(metrics_buffer, docker_buffer, docker_names, k),
                     ins_count)
    /\ runs' = NoteRun
    /\ last_op' = FlushOp("flush_failed", runs, ins_count,
                          FlushPlan(metrics_buffer, docker_buffer,
                                    FlushOrder(docker_names), 1))
    /\ FlushedBuffers
    /\ UNCHANGED <<aside_vars, now, buffer_size, pc, next_data, recorded, stale,
                   restarts>>

\* -------------------------------------------------------------- self.lock
\* The coroutines that enter "async with self.lock": a record call
\* (add_metric, add_docker_metric), a flush run, a reader (get_recent_metrics,
\* get_recent_docker_metrics, get_all_container_names).
Callers == {"record", "flush", "reader"}

\* A lock that lets everyone in.
CanAcquireAlways == TRUE

\* asyncio.Lock.acquire returns at once when the lock is not held; otherwise
\* the caller waits.
CanAcquire == ~locked

\* __aenter__ of self.lock
LockAcquire(c) ==
    /\ c \notin inside
    /\ CanAcquire
    /\ locked' = TRUE
    /\ inside' = inside \cup {c}
    /\ UNCHANGED <<health_vars, lifespan_vars, query_vars, now, buffer_size,
                   buffer_vars, last_flush, mark_vars, store_vars, pc, next_data,
                   recorded, ins_count, stale, torn, runs, failures, restarts,
                   last_op>>

\* __aexit__ of self.lock, at the end of the block or when an exception
\* leaves it.
LockRelease(c) ==
    /\ c \in inside
    /\ locked' = FALSE
    /\ inside' = inside \ {c}
    /\ UNCHANGED <<health_vars, lifespan_vars, query_vars, now, buffer_size,
                   buffer_vars, last_flush, mark_vars, store_vars, pc, next_data,
                   recorded, ins_count, stale, torn, runs, failures, restarts,
                   last_op>>

\* The blocks under the lock.
RecordLocked == "record" \in inside /\ Record

FlushLocked == "flush" \in inside /\ (FlushToDatabase \/ FlushFails)

\* The comprehension of get_recent_metrics: it reads and changes nothing.
ReadLocked == "reader" \in inside /\ UNCHANGED vars

\* ------------------------------------------------------------- lifecycle
\* The process stops and starts again: the module-level MetricsHistory() is
\* constructed anew, init_database finds the tables of the database file in
\* place (CREATE TABLE IF NOT EXISTS) with their rows, and lifespan starts
\* collect_metrics_task.
Restart ==
    /\ restarts < MaxRestarts
    /\ restarts' = restarts + 1
    /\ metrics_buffer' = [m \in Range(MetricTypes) |-> <<>>]
    /\ docker_buffer' = <<>>
    /\ docker_names' = <<>>
    /\ last_flush' = now
    /\ last_flushed_timestamp' = <<>>
    /\ last_flushed_docker_timestamp' = <<>>
    /\ pc' = "run"
    /\ recorded' = [s \in AllStreams |-> <<>>]
    /\ runs' = 0
    /\ last_op' = Other
    /\ UNCHANGED <<aside_vars, now, buffer_size, store_vars, next_data, ins_count, stale,
                   torn, failures>>

Cleanup == \E days \in CleanupDays : CleanupOldData(days)

\* ------------------------------------------------------------- exceptions
\* An exception hierarchy without intermediate classes.
BasesFlat(exc) == {exc, "Exception"}

\* The classes an exception is an instance of (the hierarchies of httpx,
\* sqlite3, psutil and asyncio).
Bases(exc) ==
    CASE exc = "ConnectTimeout" ->
            {"ConnectTimeout", "TimeoutException", "TransportError", "Exception"}
      [] exc = "ConnectError" ->
            {"ConnectError", "NetworkError", "TransportError", "Exception"}
      [] exc = "RemoteProtocolError" ->
            {"RemoteProtocolError", "ProtocolError", "TransportError", "Exception"}
      [] exc = "AttributeError" -> {"AttributeError", "Exception"}
      [] exc = "OperationalError" ->
            {"OperationalError", "DatabaseError", "Error", "Exception"}
      [] exc = "AccessDenied" -> {"AccessDenied", "Error", "Exception"}
      [] exc = "CancelledError" -> {"CancelledError", "BaseException"}
      [] OTHER -> {exc}

IsInstance(exc, cls) == cls \in Bases(exc)

\* A handler that lets no exception pass, and one that catches none.
CaughtAlways(exc) == TRUE
CaughtNever(exc) == FALSE

\* "except Exception as e" of the loops of collect_metrics_task and
\* check_service_health_task: whether the handler catches and prints exc.
Caught(exc) == IsInstance(exc, "Exception")

\* ---------------------------------------------------------- sampling loop
\* The add_metric calls of one iteration: every metric type, in order, with
\* the iteration's timestamp.
RECURSIVE SampleMetrics(_, _, _, _)
SampleMetrics(buffers, i, data, timestamp) ==
    IF i > Len(MetricTypes) THEN buffers
    ELSE SampleMetrics(AddMetricBuffer(buffers, MetricTypes[i], data, timestamp),
                       i + 1, data + 1, timestamp)

\* The add_docker_metric calls of one iteration: every container that
\* get_docker_containers reported, in order.
RECURSIVE SampleContainers(_, _, _, _, _)
SampleContainers(buffers, containers, i, data, timestamp) ==
    IF i > Len(containers) THEN buffers
    ELSE SampleContainers(
            AddDockerBuffer(buffers, containers[i], data, timestamp),
            containers, i + 1, data + 1, timestamp)

RECURSIVE SampleNames(_, _, _)
SampleNames(names, containers, i) ==
    IF i > Len(containers) THEN names
    ELSE SampleNames(AddDockerNames(names, containers[i]), containers, i + 1)

\* What get_docker_containers may report: no container, or each in turn.
RECURSIVE Listings(_)
Listings(names) ==
    IF names = {} THEN {<<>>}
    ELSE UNION {{<<>>} \cup {<<c>> \o l : l \in Listings(names \ {c})} : c \in names}

\* recorded after the iteration's appends.
SampleRecorded(containers) ==
    [s \in AllStreams |->
        IF s.kind = "metric"
        THEN Append(recorded[s],
                    next_data - 1 + CHOOSE i \in DOMAIN MetricTypes :
                                        MetricTypes[i] = s.name)
        ELSE IF s.name \in Range(containers)
        THEN Append(recorded[s],
                    next_data - 1 + Len(MetricTypes)
                        + CHOOSE i \in DOMAIN containers : containers[i] = s.name)
        ELSE recorded[s]]

\* One iteration of the loop of collect_metrics_task, up to its sleep: the
\* timestamp is read once, every metric type and every reported container is
\* appended with it, then flush_to_database is called.  fail_at = 0: the flush
\* returns (throttled or not); fail_at = k: its k-th INSERT raises, and the
\* except clause of the loop prints the error.  No await of the iteration
\* suspends it (the lock is free), so the iteration is one step.
CollectMetrics(containers, fail_at) ==
    LET timestamp == now
        n == Len(MetricTypes) + Len(containers)
        mbuf == SampleMetrics(metrics_buffer, 1, next_data, timestamp)
        dbuf == SampleContainers(docker_buffer, containers, 1,
                                 next_data + Len(MetricTypes), timestamp)
        names == SampleNames(docker_names, containers, 1)
        counts == Fresh(ins_count, next_data, n)
    IN  /\ pc = "run"
        /\ "metrics_task" \notin cancel_requested
        /\ pc' = IF fail_at > 0 /\ ~Caught("OperationalError") THEN "done"
                                                               ELSE "sleep"
        /\ metrics_buffer' = mbuf
        /\ docker_buffer' = dbuf
        /\ docker_names' = names
        /\ next_data' = next_data + n
        /\ recorded' = SampleRecorded(containers)
        /\ IF Throttled(now)
           THEN /\ fail_at = 0
                /\ ins_count' = counts
                /\ runs' = 0
                /\ last_op' = Other
                /\ UNCHANGED <<last_flush, mark_vars, store_vars, torn, failures>>
           ELSE /\ fail_at <= Len(FlushPlan(mbuf, dbuf, FlushOrder(names), 1))
                /\ fail_at > 0 => failures < MaxFailures
                /\ ApplyFlush(FlushRun(mbuf, dbuf, names, fail_at), counts)
                /\ runs' = 1
                /\ last_op' = FlushOp(IF fail_at = 0 THEN "flush"
                                                      ELSE "flush_failed",
                                      0, counts,
                                      FlushPlan(mbuf, dbuf, FlushOrder(names), 1))
        /\ UNCHANGED <<aside_vars, now, buffer_size, stale, restarts>>

\* await asyncio.sleep(2): the next iteration starts a sampling period later,
\* or somewhat after that.
WakeUntil(limit) ==
    /\ pc = "sleep"
    /\ "metrics_task" \notin cancel_requested
    /\ \E late \in 0..MaxJitter :
          /\ now + SamplingPeriod + late <= limit
          /\ now' = now + SamplingPeriod + late
    /\ pc' = "run"
    /\ last_op' = Other
    /\ UNCHANGED <<aside_vars, buffer_size, buffer_vars, last_flush, mark_vars, store_vars,
                   next_data, recorded, ins_count, stale, torn, runs, failures,
                   restarts>>

Wake == WakeUntil(MaxSamplerTime)

\* An iteration in which a collector raises (psutil) before the first
\* add_metric: nothing is recorded, flush_to_database is not reached, the
\* handler of the loop prints the exception.
CollectFaults ==
    /\ pc = "run"
    /\ "metrics_task" \notin cancel_requested
    /\ pc' = IF Caught("AccessDenied") THEN "sleep" ELSE "done"
    /\ runs' = 0
    /\ last_op' = Op("sample_failed", 0, 0, 0, 0, {})
    /\ UNCHANGED <<aside_vars, now, buffer_size, buffer_vars, last_flush, mark_vars,
                   store_vars, next_data, recorded, ins_count, stale, torn,
                   failures, restarts>>

\* --------------------------------------------------- service health checker
\* The names services.json gives its entries; two entries may carry the same
\* name.
ServiceNames == {"api", "db"}

\* An entry of services.json: its name, its "enabled" flag (True when the
\* key is absent) and whether its "url" is a string, as check_service_health
\* takes it to be when it calls url.rstrip.
ServiceDefs == [name : ServiceNames, enabled : BOOLEAN, url_is_str : BOOLEAN]

\* The contents of services.json.
Configs == UNION {[1..n -> ServiceDefs] : n \in 0..MaxServices}

\* Python's None and a value that is present.
None == <<>>
Some(x) == <<x>>

\* What the GET of a probe ends in: a response with a status code, after
\* some milliseconds, or an exception of httpx.
Responses ==
    {[kind |-> "response", code |-> c, elapsed |-> ms, exc |-> ""] :
        c \in {200, 300, 500}, ms \in {40}}
        \cup {[kind |-> "response", code |-> 204, elapsed |-> 0, exc |-> ""]}
Raises ==
    {[kind |-> "raise", code |-> 0, elapsed |-> 0, exc |-> e] :
        e \in {"ConnectTimeout", "ConnectError", "RemoteProtocolError"}}
Outcomes == Responses \cup Raises

\* check_service_health(service) when the GET ends in the given outcome and
\* the check is made at check_time.  The field raises says that the coroutine
\* raised instead of returning the result.
CheckServiceHealth(service, outcome, check_time) ==
    LET result == [name |-> service.name,
                   status |-> "unknown",
                   response_time_ms |-> None,
                   last_check |-> check_time,
                   error |-> None,
                   raises |-> FALSE]
    IN  IF ~service.url_is_str
        THEN [result EXCEPT !.raises = TRUE]
        ELSE IF outcome.kind = "response"
        THEN LET timed == [result EXCEPT
                              !.response_time_ms = Some(outcome.elapsed)]
             IN  IF 200 <= outcome.code /\ outcome.code < 300
                 THEN [timed EXCEPT !.status = "healthy"]
                 ELSE [timed EXCEPT !.status = "unhealthy",
                                    !.error = Some(<<"HTTP", outcome.code>>)]
        ELSE IF IsInstance(outcome.exc, "TimeoutException")
        THEN [result EXCEPT !.status = "unhealthy", !.error = Some("Timeout")]
        ELSE IF IsInstance(outcome.exc, "ConnectError")
        THEN [result EXCEPT !.status = "unhealthy",
                            !.error = Some("Connection refused")]
        ELSE IF IsInstance(outcome.exc, "Exception")
        THEN [result EXCEPT !.status = "unhealthy",
                            !.error = Some(outcome.exc)]
        ELSE [result EXCEPT !.raises = TRUE]

\* The filter of check_all_services left out: every entry of services.json.
AllServices == services

\* enabled_services of check_all_services
EnabledServices == SelectSeq(services, LAMBDA service : service.enabled)

\* d.setdefault(key, value): the value of a key that is present is kept.
DictSetDefault(d, key, value) ==
    [k \in DOMAIN d \cup {key} |-> IF k \in DOMAIN d THEN d[k] ELSE value]

\* d[key] = value of a dict
DictSet(d, key, value) ==
    [k \in DOMAIN d \cup {key} |-> IF k = key THEN value ELSE d[k]]

HealthOp(op, entries) == [op |-> op, entries |-> entries]

\* check_all_services up to the return of gather.  Without enabled services
\* it returns at once.  When a coroutine raises, gather raises in turn, the
\* results are dropped and the handler of check_service_health_task prints
\* the exception.  Otherwise the for loop over the results is entered.
CheckAllServices ==
    /\ hpc = "run"
    /\ "health_task" \notin cancel_requested
    /\ checks < MaxChecks
    /\ LET enabled == EnabledServices
       IN  IF enabled = <<>>
           THEN /\ hpc' = "sleep"
                /\ health_op' = HealthOp("returned", {})
                /\ UNCHANGED <<results, probes, hidx, checks>>
           ELSE \E outcomes \in [DOMAIN enabled -> Outcomes] :
                   LET got == [i \in DOMAIN enabled |->
                                 CheckServiceHealth(enabled[i], outcomes[i],
                                                    checks + 1)]
                   IN  /\ checks' = checks + 1
                       /\ IF \E i \in DOMAIN got : got[i].raises
                          THEN /\ hpc' = IF Caught("AttributeError") THEN "sleep"
                                                                      ELSE "done"
                               /\ health_op' = HealthOp("raised", {})
                               /\ UNCHANGED <<results, probes, hidx>>
                          ELSE /\ hpc' = "publish"
                               /\ results' = got
                               /\ probes' = outcomes
                               /\ hidx' = 1
                               /\ health_op' = HealthOp("gathered", {})
    /\ UNCHANGED <<history_vars, lifespan_vars, services, health_status>>

\* One round of "for result in results: self.health_status[name] = result";
\* after the last one check_all_services returns.
PublishResult ==
    /\ hpc = "publish"
    /\ health_status' = DictSet(health_status, results[hidx].name, results[hidx])
    /\ IF hidx = Len(results)
       THEN /\ hpc' = "sleep"
            /\ hidx' = 1
            /\ health_op' = HealthOp("returned", {})
       ELSE /\ hidx' = hidx + 1
            /\ health_op' = HealthOp("published", {})
            /\ UNCHANGED hpc
    /\ UNCHANGED <<history_vars, lifespan_vars, services, results, probes, checks>>

\* await asyncio.sleep(10) of check_service_health_task
HealthWake ==
    /\ hpc = "sleep"
    /\ "health_task" \notin cancel_requested
    /\ hpc' = "run"
    /\ health_op' = HealthOp("other", {})
    /\ UNCHANGED <<history_vars, lifespan_vars, services, health_status, results,
                   probes, hidx, checks>>

\* get_all_health_status, called by get_services_health.  That endpoint is a
\* plain def, which the framework runs on a worker thread: it can run between
\* any two rounds of the for loop of check_all_services.
GetAllHealthStatus ==
    /\ health_op' = HealthOp("read", Range(health_status))
    /\ UNCHANGED <<history_vars, lifespan_vars, services, health_status, hpc,
                   results, probes, hidx, checks>>

\* ------------------------------------------------------------- lifespan
\* The shutdown phase of lifespan up to its first await: both tasks are
\* cancelled, one call after the other.  lifespan runs on the event loop, so
\* not while check_all_services is in its for loop.
Shutdown ==
    /\ lifespan_pc = "serving"
    /\ hpc # "publish"
    /\ lifespan_pc' = "await_metrics"
    /\ cancel_requested' = {"metrics_task", "health_task"}
    /\ UNCHANGED <<history_vars, health_vars>>

\* collect_metrics_task takes the cancellation.  No await of its iteration
\* suspends it, so it is in asyncio.sleep(2), outside the try, when
\* CancelledError is thrown into it (or it has not started): the task ends.
MetricsCancelled ==
    /\ "metrics_task" \in cancel_requested
    /\ pc \in {"run", "sleep"}
    /\ pc' = "done"
    /\ last_op' = Other
    /\ UNCHANGED <<aside_vars, now, buffer_size, buffer_vars, last_flush, mark_vars,
                   store_vars, next_data, recorded, ins_count, stale, torn, runs,
                   failures, restarts>>

\* check_service_health_task takes the cancellation: in asyncio.sleep(10),
\* outside the try, or in the gather of check_all_services, inside the try,
\* where the handler of the loop decides whether CancelledError ends the task.
HealthCancelled ==
    /\ "health_task" \in cancel_requested
    /\ hpc \in {"run", "sleep"}
    /\ IF hpc = "run" /\ Caught("CancelledError")
       THEN /\ hpc' = "sleep"
            /\ cancel_requested' = cancel_requested \ {"health_task"}
            /\ health_op' = HealthOp("raised", {})
       ELSE /\ hpc' = "done"
            /\ health_op' = HealthOp("other", {})
            /\ UNCHANGED cancel_requested
    /\ UNCHANGED <<history_vars, lifespan_pc, services, health_status, results,
                   probes, hidx, checks>>

\* "await metrics_task" returns once the task has ended.
AwaitMetrics ==
    /\ lifespan_pc = "await_metrics"
    /\ pc = "done"
    /\ lifespan_pc' = "await_health"
    /\ UNCHANGED <<history_vars, health_vars, cancel_requested>>

\* "await health_task" returns once the task has ended; then lifespan prints
\* "Background tasks stopped".
AwaitHealth ==
    /\ lifespan_pc = "await_health"
    /\ hpc = "done"
    /\ lifespan_pc' = "stopped"
    /\ UNCHANGED <<history_vars, health_vars, cancel_requested>>

\* No run makes more INSERTs than the buffers hold entries.
MaxInserts == (MaxBufferSize + 1) * (Len(MetricTypes) + Cardinality(ContainerNames))

Collect ==
    \E containers \in Listings(ContainerNames), fail_at \in 0..MaxInserts :
        CollectMetrics(containers, fail_at)

\* ---------------------------------------------------------- specifications
\* Any caller: add_metric, add_docker_metric, flush_to_database and
\* cleanup_old_data are called in any order with the clock at any instant.
Next ==
    \/ Tick
    \/ Record
    \/ FlushThrottled
    \/ FlushToDatabase
    \/ FlushFails
    \/ Cleanup
    \/ Restart

Spec == Init /\ [][Next]_vars

\* The application as main.py wires it: the buffers are fed by
\* collect_metrics_task alone, which flushes in every iteration.
InitSampler ==
    /\ \E size \in {MaxBufferSize, MaxBufferSize + 1} : InitWith(size)
    /\ InitHealth(<<>>)

NextSampler ==
    \/ Collect
    \/ Wake
    \/ Cleanup
    \/ Restart

SpecSampler == InitSampler /\ [][NextSampler]_vars

\* The health checker alone: check_service_health_task over every content of
\* services.json, and a reader of the status table.
InitHealthChecker ==
    /\ InitWith(MaxBufferSize)
    /\ \E config \in Configs : InitHealth(config)

NextHealth ==
    \/ CheckAllServices
    \/ PublishResult
    \/ HealthWake
    \/ GetAllHealthStatus

SpecHealth == InitHealthChecker /\ [][NextHealth]_vars

\* Long-range queries beside the callers that record and flush, with the
\* clock read late enough for a range to have a lower edge above the oldest
\* row and for the buffer to hold entries older than its last 5 minutes.
QueryInstants == {1, EarlyTime + FlushAgeMinutes, LateTime, MaxQueryTime}

\* The ranges asked for: the shortest that takes the store branch, and an hour.
LongRanges == {InMemoryMinutes + 1, 60}

TickQuery == TickTo(QueryInstants)

QueryStore ==
    \E s \in AllStreams, range_minutes \in LongRanges :
        QueryStoreRead(s, range_minutes)

NextQuery ==
    \/ TickQuery
    \/ Record
    \/ FlushToDatabase
    \/ FlushFails
    \/ QueryStore
    \/ QueryBufferRead

SpecQuery == Init /\ [][NextQuery]_vars

\* The callers of MetricsHistory with the lock spelled out: every block that
\* touches the buffers or the marks runs between an acquire and a release.
Acquire == \E c \in Callers : LockAcquire(c)

Release == \E c \in Callers : LockRelease(c)

NextLock ==
    \/ Tick
    \/ Acquire
    \/ Release
    \/ RecordLocked
    \/ FlushLocked
    \/ ReadLocked

SpecLock == Init /\ [][NextLock]_vars

\* The process from startup to shutdown: both background tasks and lifespan.
\* services.json holds one enabled service, well formed or not.
TaskConfigs ==
    {<<[name |-> "api", enabled |-> TRUE, url_is_str |-> ok]>> : ok \in BOOLEAN}

InitTasks ==
    /\ InitWith(MaxBufferSize)
    /\ \E config \in TaskConfigs : InitHealth(config)

TaskWake == WakeUntil(MaxTaskTime)

NextTasks ==
    \/ Collect
    \/ CollectFaults
    \/ TaskWake
    \/ CheckAllServices
    \/ PublishResult
    \/ HealthWake
    \/ Shutdown
    \/ MetricsCancelled
    \/ HealthCancelled
    \/ AwaitMetrics
    \/ AwaitHealth

\* The event loop runs every task that is ready: a sleep that has expired
\* resumes its task, a cancelled task is resumed with CancelledError, and an
\* await of a task that has ended returns.
SpecTasks ==
    /\ InitTasks
    /\ [][NextTasks]_vars
    /\ WF_vars(TaskWake)
    /\ WF_vars(HealthWake)
    /\ WF_vars(PublishResult)
    /\ WF_vars(MetricsCancelled)
    /\ WF_vars(HealthCancelled)
    /\ WF_vars(AwaitMetrics)
    /\ WF_vars(AwaitHealth)

(***************************************************************************)
(* Properties                                                              *)
(***************************************************************************)

\* The payloads of a buffer, oldest entry first.
DataSeq(buffer) == [i \in DOMAIN buffer |-> buffer[i].data]

\* The payloads recorded into stream s since construction that the buffer
\* must hold: the last min(buffer_size, Len) of them, oldest first.
MostRecent(s) ==
    LET rec == recorded[s]
        n == Len(rec)
    IN  SubSeq(rec, Max2(1, n - buffer_size + 1), n)

\* C1: after any number of record calls into a stream, its buffer holds the
\* most recent buffer_size entries recorded (all of them while fewer have been
\* recorded), in the order they were recorded, and never more than
\* buffer_size.
C1_BufferHoldsMostRecent ==
    \A s \in AllStreams :
        /\ Len(BufferOf(s)) <= buffer_size
        /\ DataSeq(BufferOf(s)) = MostRecent(s)

\* C1 witness: more than buffer_size entries were recorded into one stream
\* and its buffer is full.
C1_Overflowed ==
    \E s \in AllStreams :
        /\ Len(recorded[s]) > buffer_size
        /\ Len(BufferOf(s)) = buffer_size

\* The payloads recorded into stream s that its buffer no longer holds: the
\* entries evicted by capacity.
Evicted(s) == Range(recorded[s]) \ Payloads(BufferOf(s))

\* The sampling cycles an entry stays in a buffer of buffer_size entries
\* exceed those it needs to become eligible for a flush run that is not
\* throttled: FlushAgeMinutes \div SamplingPeriod cycles to age, then up to
\* ceil(FlushInterval / SamplingPeriod) cycles until a run is due.  (With the
\* values of the program, 300 s, 2 s, 60 s and 450 entries: 150 + 30 < 450.)
Retained ==
    (FlushAgeMinutes \div SamplingPeriod)
        + ((FlushInterval + SamplingPeriod - 1) \div SamplingPeriod) < buffer_size

FlushRan == last_op.op \in {"flush", "flush_failed"}

\* The entries of the buffers that are older than the flush cutoff.
Aged(s) ==
    {d \in Payloads(BufferOf(s)) :
        \E i \in DOMAIN BufferOf(s) :
            BufferOf(s)[i].data = d /\ BufferOf(s)[i].timestamp < FlushCutoff}

Windows == {1, RecentMinutes, InMemoryMinutes}

\* The streams a query can name: those that are fed and those that never are.
QueryStreams == AllStreams \cup UnknownStreams

\* The indexes of the buffer entries of stream s no older than the window.
InWindow(s, minutes) ==
    {i \in DOMAIN BufferOf(s) : BufferOf(s)[i].timestamp >= now - minutes}

\* Whether the stream has a buffer at all.
HasBuffer(s) ==
    IF s.kind = "metric" THEN s.name \in DOMAIN metrics_buffer
    ELSE s.name \in DOMAIN docker_buffer

\* The result r holds exactly the entries of stream s within the window, each
\* once.
ExactlyInWindow(r, s, minutes) ==
    /\ Len(r) = Cardinality(InWindow(s, minutes))
    /\ \A i \in InWindow(s, minutes) : \E k \in DOMAIN r : r[k] = BufferOf(s)[i]

\* The index in the buffer of stream s of an entry it holds (payloads are
\* unique).
IndexIn(s, e) == CHOOSE i \in DOMAIN BufferOf(s) : BufferOf(s)[i] = e

\* C5 as stated: recent(stream, window) returns exactly the buffer entries
\* with timestamp >= now - window, in ascending timestamp order, and the empty
\* sequence for a stream without a buffer.
C5_RecentAscending ==
    \A s \in QueryStreams : \A minutes \in Windows :
        LET r == Recent(s, minutes)
        IN  /\ ExactlyInWindow(r, s, minutes)
            /\ \A j, k \in DOMAIN r : j < k => r[j].timestamp <= r[k].timestamp
            /\ ~HasBuffer(s) => r = <<>>

\* C5, amended: recent(stream, window) returns exactly the buffer entries
\* with timestamp >= now - window, in the order the buffer holds them (the
\* order they were recorded in), and the empty sequence for a stream without
\* a buffer.
C5_RecentInBufferOrder ==
    \A s \in QueryStreams : \A minutes \in Windows :
        LET r == Recent(s, minutes)
        IN  /\ ExactlyInWindow(r, s, minutes)
            /\ \A j, k \in DOMAIN r : j < k => IndexIn(s, r[j]) < IndexIn(s, r[k])
            /\ ~HasBuffer(s) => r = <<>>

\* C5 witness: a buffer holds a newer entry before an older one that lies
\* exactly at the edge of the window, and recent() returns both in that order.
C5_OutOfOrderAtEdge ==
    \E s \in AllStreams :
        LET r == Recent(s, 1)
        IN  /\ Len(r) = 2
            /\ r[1].timestamp > r[2].timestamp
            /\ r[2].timestamp = now - 1

\* The samples of stream s the Durable Store holds.
StoreSamples(s) ==
    IF s.kind = "metric"
    THEN {[timestamp |-> row.timestamp, data |-> JsonLoads(row.data)] :
            row \in {q \in metrics_table : q.metric_type = s.name}}
    ELSE {[timestamp |-> row.timestamp, data |-> JsonLoads(row.data)] :
            row \in {q \in docker_table : q.container_name = s.name}}

\* The samples of stream s the buffer holds.
BufferSamples(s) ==
    {[timestamp |-> BufferOf(s)[i].timestamp, data |-> BufferOf(s)[i].data] :
        i \in DOMAIN BufferOf(s)}

\* The samples of stream s held in either tier with a timestamp in
\* [now - range_minutes, now].
HeldInRange(s, range_minutes) ==
    {e \in BufferSamples(s) \cup StoreSamples(s) :
        e.timestamp >= now - range_minutes /\ e.timestamp <= now}

\* C6: query(stream, range) returns, for every allowed range and at every
\* point between flush cycles, a sequence in timestamp order in which every
\* sample of the stream that is held in the buffer or in the Durable Store
\* with a timestamp in [now - range, now] appears.
C6_QueryCoversRange ==
    \A s \in AllStreams : \A range_minutes \in ValidRanges :
        LET r == Query(s, range_minutes)
        IN  /\ \A e \in HeldInRange(s, range_minutes) :
                    \E k \in DOMAIN r :
                        r[k].timestamp = e.timestamp /\ r[k].data = e.data
            /\ \A j, k \in DOMAIN r : j < k => r[j].timestamp <= r[k].timestamp

\* Samples in timestamp order, equal timestamps in recording order.
RECURSIVE SortSamples(_)
SortSamples(samples) ==
    IF samples = {} THEN <<>>
    ELSE LET first == CHOOSE e \in samples : \A q \in samples :
                          \/ e.timestamp < q.timestamp
                          \/ e.timestamp = q.timestamp /\ e.data <= q.data
         IN  <<first>> \o SortSamples(samples \ {first})

\* What query(stream, range) of the in-memory branch returns when all the
\* samples the two tiers hold reside in the buffer.
AllInBuffer(s, range_minutes) ==
    RecentOf(SortSamples(BufferSamples(s) \cup StoreSamples(s)),
             now - range_minutes)

\* C7: query(stream, 10) returns the same ordered sequence when the samples
\* of the stream are split between the buffer and the Durable Store as when
\* all of them reside in the buffer.  Read for buffers that retain the whole
\* in-memory window of InMemoryMinutes at the sampling period.
C7_MergeCorrect ==
    buffer_size * SamplingPeriod >= InMemoryMinutes =>
        \A s \in AllStreams : Query(s, 10) = AllInBuffer(s, 10)

\* Stream s has no entry in the buffer and no row in the Durable Store.
NoData(s) == BufferOf(s) = <<>> /\ StoreSamples(s) = {}

\* C8: a query, recent or historical and of any range, for a stream with no
\* data in the buffer and no rows in the Durable Store returns the empty
\* sequence; so does the history of a container name that was never reported.
C8_NoDataEmptyResult ==
    \A s \in QueryStreams :
        NoData(s) =>
            /\ \A minutes \in Windows : Recent(s, minutes) = <<>>
            /\ \A range_minutes \in ValidRanges : Query(s, range_minutes) = <<>>

\* C8 witness: the container table has rows in range and another container
\* has buffered entries while the history of the unknown container is asked
\* for.
C8_UnknownBesideKnown ==
    /\ NoData(DockerStream(UnknownContainer))
    /\ \E c \in ContainerNames :
            /\ GetDockerMetricsRange(c, now - 60) # <<>>
            /\ BufferOf(DockerStream(c)) # <<>>
    /\ \E i \in DOMAIN MetricTypes : NoData(MetricStream(MetricTypes[i]))

\* The latest step was cleanup_old_data.
CleanupRan == last_op.op = "cleanup"

\* C9: cleanup_old_data(days) deletes every row of both tables whose
\* timestamp is < now - days, leaves the other rows in place, and returns the
\* total number of rows it deleted.  (last_op.n rows before, last_op.m of them
\* deleted.)
C9_CleanupReturnsTotal ==
    CleanupRan =>
        /\ \A row \in metrics_table \cup docker_table :
                ~(row.timestamp < CleanupCutoff(last_op.arg))
        /\ Cardinality(metrics_table) + Cardinality(docker_table)
                = last_op.n - last_op.m
        /\ last_op.ret = last_op.m

\* C10: cleanup_old_data(0) leaves no row in either table, whatever rows the
\* flush runs had inserted; and cleanup_old_data on a store without rows
\* returns 0.
C10_PurgeAllEmpties ==
    CleanupRan =>
        /\ last_op.arg = 0 => metrics_table = {} /\ docker_table = {}
        /\ last_op.n = 0 => last_op.ret = 0

\* C10 witness: cleanup_old_data(0) has just deleted rows that flush runs had
\* inserted into both tables.
C10_PurgedFlushedRows ==
    /\ CleanupRan
    /\ last_op.arg = 0
    /\ last_op.m >= 2
    /\ last_op.ret >= 1
    /\ last_op.m > last_op.ret

\* ------------------------------------------------------------------- C11
\* The names of the entries of services.json that are enabled.
EnabledNames == {services[i].name : i \in {j \in DOMAIN services : services[j].enabled}}

\* Some enabled entry of services.json has no string for its url.
MalformedEnabled ==
    \E i \in DOMAIN services : services[i].enabled /\ ~services[i].url_is_str

CycleReturned == health_op.op = "returned"

C12_OutcomeClassified ==
    \A i \in DOMAIN results :
        LET result == results[i]
            outcome == probes[i]
            code == outcome.code
        IN  /\ result.status \in {"healthy", "unhealthy"}
            /\ result.status = "healthy" <=>
                  (outcome.kind = "response" /\ code \in 200..299)
            /\ (result.response_time_ms # None) <=> (outcome.kind = "response")
            /\ outcome.kind = "response" =>
                  result.response_time_ms = Some(outcome.elapsed)
            /\ result.status = "healthy" => result.error = None
            /\ (outcome.kind = "response" /\ code \notin 200..299) =>
                  result.error = Some(<<"HTTP", code>>)
            /\ outcome.exc = "ConnectTimeout" => result.error = Some("Timeout")
            /\ outcome.exc = "ConnectError" =>
                  result.error = Some("Connection refused")
            /\ outcome.exc = "RemoteProtocolError" =>
                  result.error = Some(outcome.exc)

\* One cycle classified a response that took no measurable time and a fault
\* that is neither a timeout nor a failed connection.
C12_InstantResponseBesideFault ==
    /\ \E i \in DOMAIN results : /\ probes[i].kind = "response"
                                 /\ probes[i].elapsed = 0
                                 /\ results[i].response_time_ms = Some(0)
    /\ \E i \in DOMAIN results : /\ probes[i].exc = "RemoteProtocolError"
                                 /\ results[i].status = "unhealthy"

\* ------------------------------------------------------------------- C13
\* C13: the status table changes atomically per check cycle.  What a reader
\* gets from get_all_health_status is the complete table of one cycle, the
\* previous one or the new one (or the empty table before the first cycle):
\* all its entries are of the same cycle and none is missing.
C13_ReaderSeesOneCycle ==
    health_op.op = "read" =>
        \/ health_op.entries = {}
        \/ /\ {entry.name : entry \in health_op.entries} = EnabledNames
           /\ \A e1, e2 \in health_op.entries : e1.last_check = e2.last_check

\* ------------------------------------------------------------------- C14
\* The iteration of collect_metrics_task that just ended raised, in sampling
\* or in the flush, and the handler of the loop printed the exception.
MetricsRaised ==
    pc = "sleep" /\ last_op.op \in {"flush_failed", "sample_failed"}

\* The iteration of check_service_health_task that just ended raised.
HealthRaised == hpc = "sleep" /\ health_op.op = "raised"

\* C14: the background loops never end because of a failure.  A task ends
\* only when it was cancelled, and whenever an iteration raised, the loop,
\* unless cancelled, starts its next iteration once its sleep is over (for
\* collect_metrics_task: while the clock of the model allows another one).
C14_LoopsSurviveFailures ==
    /\ [](pc = "done" => "metrics_task" \in cancel_requested)
    /\ [](hpc = "done" => "health_task" \in cancel_requested)
    /\ (MetricsRaised /\ now + SamplingPeriod <= MaxTaskTime)
          ~> (pc = "run" \/ "metrics_task" \in cancel_requested)
    /\ HealthRaised ~> (hpc = "run" \/ "health_task" \in cancel_requested)

\* Both loops are at the start of an iteration after one that raised: a flush
\* of collect_metrics_task failed, and a check cycle failed on a malformed
\* service definition.
C14_NextIterationAfterFailure ==
    /\ cancel_requested = {}
    /\ pc = "run"
    /\ failures > 0
    /\ hpc = "run"
    /\ checks > 0
    /\ MalformedEnabled

\* ------------------------------------------------------------------- C15
\* C15: at shutdown lifespan cancels both tasks together, each task ends
\* where the cancellation reaches it (the handler of its loop does not catch
\* it and go on), and the shutdown phase of lifespan completes.
C15_ShutdownCompletes ==
    /\ [](cancel_requested \in {{}, {"metrics_task", "health_task"}})
    /\ [](lifespan_pc = "serving" <=> cancel_requested = {})
    /\ (lifespan_pc # "serving")
          ~> (lifespan_pc = "stopped" /\ pc = "done" /\ hpc = "done")

\* Shutdown has completed after both loops had run iterations and a check
\* cycle had stored its results.
C15_StoppedAfterIterations ==
    /\ lifespan_pc = "stopped"
    /\ next_data > 1
    /\ checks > 0
    /\ health_status # <<>>

\* ------------------------------------------------------------------- C16
\* last_flushed < entry.timestamp < flush_cutoff, with the mark of stream s
\* (0 if it has none) and flush_cutoff = now - 5 minutes.
Qualifies(s, entry) ==
    /\ MarkOf(s) < entry.timestamp
    /\ entry.timestamp < now - FlushAgeMinutes

C17_MarksNeverDecrease ==
    [][restarts' = restarts =>
          /\ DOMAIN last_flushed_timestamp \subseteq DOMAIN last_flushed_timestamp'
          /\ DOMAIN last_flushed_docker_timestamp
                \subseteq DOMAIN last_flushed_docker_timestamp'
          /\ \A s \in AllStreams \cup UnknownStreams : MarkOf(s)' >= MarkOf(s)]_vars

\* Two streams have marks, entries at or below a mark were recorded after it
\* was set, and a flush or a purge has just run.
C17_MarksKeptThroughLaterOps ==
    /\ restarts = 0
    /\ Cardinality({s \in AllStreams : MarkOf(s) > 0}) >= 2
    /\ stale # {}
    /\ last_op.op \in {"flush", "cleanup"}

\* ------------------------------------------------------------------- C18
\* The timestamps of the rows of the store that belong to stream s.
WrittenTimestamps(s) ==
    IF s.kind = "metric"
    THEN {row.timestamp : row \in {r \in metrics_table : r.metric_type = s.name}}
    ELSE {row.timestamp : row \in {r \in docker_table : r.container_name = s.name}}

MarkIsSet(s) ==
    IF s.kind = "metric" THEN s.name \in DOMAIN last_flushed_timestamp
    ELSE s.name \in DOMAIN last_flushed_docker_timestamp

\* No purge has deleted a row: every row ever inserted is in its table.
NothingPurged ==
    /\ Cardinality(metrics_table) = metrics_seq
    /\ Cardinality(docker_table) = docker_seq

\* C18: between the runs of flush_to_database of one process, as long as no
\* purge has removed rows, the mark of a stream is the greatest timestamp
\* among the rows written for it, and the stream has no mark exactly when no
\* row was written for it; also after a run that a failing INSERT cut short.
C18_MarkIsMaxWritten ==
    (restarts = 0 /\ NothingPurged) =>
        \A s \in AllStreams :
            /\ MarkIsSet(s) <=> WrittenTimestamps(s) # {}
            /\ \A t \in WrittenTimestamps(s) : t <= MarkOf(s)
            /\ MarkIsSet(s) => MarkOf(s) \in WrittenTimestamps(s)

\* ------------------------------------------------------------------- C19
\* C19: a run of flush_to_database invoked before flush_interval has elapsed
\* since the previous run is a no-op.  A run that does anything is at least
\* flush_interval after last_flush (the construction, or the last run that
\* completed), and a run invoked at the instant of the previous run, whether
\* that one completed or ended in a failing INSERT, leaves the store, the
\* buffers, the marks and last_flush as they were.
C19_EarlyRunIsNoOp ==
    [][last_op'.op \in {"flush", "flush_failed"} =>
          /\ now - last_flush >= FlushInterval
          /\ (FlushRan /\ now' = now) =>
                UNCHANGED <<store_vars, buffer_vars, mark_vars, last_flush>>]_vars

\* ------------------------------------------------------------------- C20
\* C20: within one run of flush_to_database an INSERT that raises does not
\* keep the run from attempting the other qualifying entries, of the same
\* stream and of the other streams: every qualifying entry of every stream
\* gets an INSERT attempt.
C20_EveryQualifyingEntryAttempted ==
    FlushRan => last_op.m = last_op.n

\* ------------------------------------------------------------------- C21
\* C21: a torn batch is safe to retry.  When a run stopped inside the batch
\* of a stream after it had written some of its entries, no later run writes
\* a second row for an entry the torn run had written.
C21_TornRetryWritesNoSecondRow ==
    \A d \in torn : ins_count[d] <= 1

\* ------------------------------------------------------------------- C22
\* The rows of the store of stream s with a timestamp in
\* [now - range_minutes, now].
RowsInRange(s, range_minutes) ==
    {row \in IF s.kind = "metric"
             THEN {q \in metrics_table : q.metric_type = s.name}
             ELSE {q \in docker_table : q.container_name = s.name} :
        row.timestamp >= now - range_minutes /\ row.timestamp <= now}

SampleOf(row) == [timestamp |-> row.timestamp, data |-> JsonLoads(row.data)]

\* The entries of the buffer of stream s of the last 5 minutes, in buffer
\* order.
LastFiveMinutes(s) ==
    SelectSeq(BufferOf(s), LAMBDA entry : entry.timestamp >= now - RecentMinutes)

\* The first n entries of r are the given rows, each once, in ascending order
\* of timestamp.
IsStorePart(r, n, rows) ==
    /\ n <= Len(r)
    /\ \A row \in rows :
          Cardinality({i \in 1..n : r[i] = SampleOf(row)})
              = Cardinality({q \in rows : SampleOf(q) = SampleOf(row)})
    /\ \A i \in 1..n : \E row \in rows : r[i] = SampleOf(row)
    /\ \A i, j \in 1..n : i < j => r[i].timestamp <= r[j].timestamp

\* C22: for range_minutes > 15 the historical query returns the rows of the
\* store of the stream within [now - range_minutes, now] in ascending order
\* of timestamp, followed by those entries of the buffer's last 5 minutes
\* whose timestamp is above that of the last row; the buffer's last 5 minutes
\* alone when the store returns no row; the rows alone when the buffer's last
\* 5 minutes are empty.
C22_LongRangeComposition ==
    \A s \in QueryStreams : \A range_minutes \in LongRanges :
        LET r == Query(s, range_minutes)
            rows == RowsInRange(s, range_minutes)
            n == Cardinality(rows)
            recent_buffer == LastFiveMinutes(s)
        IN  /\ recent_buffer = <<>> => Len(r) = n /\ IsStorePart(r, n, rows)
            /\ (rows = {} /\ recent_buffer # <<>>) => r = recent_buffer
            /\ (rows # {} /\ recent_buffer # <<>>) =>
                  /\ IsStorePart(r, n, rows)
                  /\ SubSeq(r, n + 1, Len(r)) =
                        SelectSeq(recent_buffer,
                                  LAMBDA entry : entry.timestamp > r[n].timestamp)

\* A query of the shortest long range leaves out a row older than the range,
\* returns a row of the store and, after it, some but not all entries of the
\* buffer.
C22_RowsThenRecentEntries ==
    \E s \in AllStreams :
        LET range_minutes == InMemoryMinutes + 1
            r == Query(s, range_minutes)
            n == Cardinality(RowsInRange(s, range_minutes))
        IN  /\ n > 0
            /\ Len(r) > n
            /\ Len(r) - n < Len(BufferOf(s))
            /\ \E t \in WrittenTimestamps(s) : t < now - range_minutes

\* ------------------------------------------------------------------- C23
\* The entries of r after its first n are strictly newer than the n-th.
TailNewer(r, n) ==
    n > 0 => \A i \in (n + 1)..Len(r) : r[i].timestamp > r[n].timestamp

NoSampleTwice(r) == \A i, j \in DOMAIN r : i # j => r[i] # r[j]

NonDecreasing(r) ==
    \A i, j \in DOMAIN r : i < j => r[i].timestamp <= r[j].timestamp

\* C23: in every result of a long-range query each entry taken from the
\* buffer is strictly newer than the last entry of the store returned, no
\* sample appears twice and the timestamps do not decrease; also when record
\* calls or flush runs come between the read of the store and the read of
\* the buffer.
C23_NoSampleTwice ==
    /\ qpc = "buffer" =>
          /\ TailNewer(QueryResult, Len(db_snapshot))
          /\ NoSampleTwice(QueryResult)
          /\ NonDecreasing(QueryResult)
    /\ \A s \in AllStreams : \A range_minutes \in LongRanges :
          /\ NoSampleTwice(Query(s, range_minutes))
          /\ NonDecreasing(Query(s, range_minutes))

\* ------------------------------------------------------------------- C24
\* C24: the operations on the buffers and on the maps of marks exclude one
\* another.  At most one caller is inside the section of the lock, the lock
\* is held exactly while one is, and every step that changes a buffer or a
\* mark (the appends of a record call; the inserts and the mark updates of a
\* flush run, which read the marks in the same step) is made with exactly one
\* caller inside, who stays inside.
C24_MutualExclusion ==
    /\ [](Cardinality(inside) <= 1 /\ (locked <=> inside # {}))
    /\ [][(buffer_vars' # buffer_vars \/ mark_vars' # mark_vars
              \/ store_vars' # store_vars)
            => (Cardinality(inside) = 1 /\ inside' = inside)]_vars

\* A flush run has inserted rows and set a mark and is still inside the
\* section, after a record call had been inside it.
C24_FlushInsideSection ==
    /\ inside = {"flush"}
    /\ locked
    /\ last_op.op = "flush"
    /\ last_op.rows # {}
    /\ \E s \in AllStreams : MarkOf(s) > 0

\* ------------------------------------------------------------------- C25
\* The rows of the Durable Store of stream s.
StoreRows(s) ==
    IF s.kind = "metric"
    THEN {row \in metrics_table : row.metric_type = s.name}
    ELSE {row \in docker_table : row.container_name = s.name}

\* Row a holds an entry that was recorded before the entry of row b
\* (payloads are numbered in the order of the record calls).
RecordedBefore(a, b) == JsonLoads(a.data) < JsonLoads(b.data)

NewRows(s, d) == {row \in StoreRows(s)' \ StoreRows(s) : JsonLoads(row.data) = d}
FirstNewId(s, d) ==
    CHOOSE id \in {row.id : row \in NewRows(s, d)} :
        \A row \in NewRows(s, d) : id <= row.id

\* Payload d gets its first row in this step.
FirstInserted(d) == ins_count[d] = 0 /\ ins_count'[d] > 0

NewestResult(name) ==
    results[CHOOSE i \in DOMAIN results :
                /\ results[i].name = name
                /\ \A j \in DOMAIN results : results[j].name = name => j <= i]

\* An entry as the status table may hold it: healthy or unhealthy, with an
\* error exactly when unhealthy.
Settled(entry) ==
    /\ entry.status \in {"healthy", "unhealthy"}
    /\ (entry.error = None) <=> (entry.status = "healthy")

\* C26: at every moment each entry of the status table is healthy or
\* unhealthy, never unknown, and has no error exactly when it is healthy;
\* only enabled services have entries; when a check cycle has completed,
\* every enabled service has an entry and each entry is the result this cycle
\* got for its name; and no step removes an entry, so a service without an
\* entry is one no completed cycle has checked.
C26_EntriesSettledAndOverwritten ==
    /\ [](/\ \A name \in DOMAIN health_status : Settled(health_status[name])
          /\ DOMAIN health_status \subseteq EnabledNames
          /\ CycleReturned =>
                /\ EnabledNames \subseteq DOMAIN health_status
                /\ \A name \in DOMAIN health_status :
                      health_status[name] = NewestResult(name))
    /\ [][DOMAIN health_status \subseteq DOMAIN health_status']_vars

\* The second cycle has completed: the entry of one service, healthy, and
\* that of another, unhealthy with an error, are both of this cycle and have
\* replaced those of the first.
C26_SecondCycleOverwrote ==
    /\ CycleReturned
    /\ checks = 2
    /\ \E a, b \in DOMAIN health_status :
          /\ health_status[a].status = "healthy"
          /\ health_status[a].error = None
          /\ health_status[a].last_check = 2
          /\ health_status[b].status = "unhealthy"
          /\ health_status[b].error # None
          /\ health_status[b].last_check = 2

\* ------------------------------------------------------------------- C27
\* The payloads that stream s holds before a step and no longer after it.
Left(s) == Payloads(BufferOf(s)) \ Payloads(BufferOf(s))'

\* C27: a call of flush_to_database, throttled, completed or cut short by a
\* failing INSERT, leaves every buffer as it was; and while the process
\* lives an entry leaves a buffer only in a record call on a full buffer,
\* which drops the oldest entry of that buffer.
C27_FlushLeavesBuffers ==
    [][/\ (FlushThrottled \/ FlushToDatabase \/ FlushFails)
            => buffer_vars' = buffer_vars
       /\ \A s \in AllStreams :
            (Left(s) # {} /\ restarts' = restarts)
                => /\ Record
                   /\ Len(BufferOf(s)) = buffer_size
                   /\ Left(s) = {Head(BufferOf(s)).data}]_vars

\* A run has just inserted every entry of a full buffer, and the buffer
\* still holds each of them.
C27_FlushedEntriesStillBuffered ==
    /\ last_op.op = "flush"
    /\ \E s \in AllStreams :
          /\ Len(BufferOf(s)) = buffer_size
          /\ last_op.rows = Payloads(BufferOf(s))
          /\ \A d \in last_op.rows : ins_count[d] = 1

\* ------------------------------------------------------------------- C28
\* The payloads the Durable Store holds a row of.
StoredPayloads ==
    {JsonLoads(row.data) : row \in metrics_table \cup docker_table}

\* The payloads that were inserted and of which a purge has left no row.
Purged == {d \in DOMAIN ins_count : ins_count[d] >= 1} \ StoredPayloads

\* C28: cleanup_old_data leaves the buffers and the high-water marks as they
\* were, and no step inserts an entry again that was inserted before and has
\* been deleted by a purge.
C28_PurgedEntryNeverInsertedAgain ==
    [][/\ Cleanup => (buffer_vars' = buffer_vars /\ mark_vars' = mark_vars)
       /\ \A d \in Purged : ins_count'[d] = ins_count[d]]_vars

\* The same, for the entries no run left in a torn batch.
C28_PurgedEntryInsertedAgainOnlyIfTorn ==
    [][/\ Cleanup => (buffer_vars' = buffer_vars /\ mark_vars' = mark_vars)
       /\ \A d \in Purged \ torn : ins_count'[d] = ins_count[d]]_vars

\* A completed run has passed over an entry that was inserted once, has been
\* purged from the store and is still held in its buffer.
C28_PurgedEntryPassedOver ==
    /\ last_op.op = "flush"
    /\ \E s \in AllStreams : \E d \in Payloads(BufferOf(s)) \cap Purged :
          /\ d \notin torn
          /\ ins_count[d] = 1
          /\ BufferOf(s)[1].timestamp < FlushCutoff

=============================================================================
